---- MODULE Spec2Model ----
(***************************************************************************)
(* Hexagonal tile wipe transition (PageTransition / HexGridCanvas).        *)
(*                                                                         *)
(* Spec      : the React component PageTransition with its HexGridCanvas   *)
(*             children: committed state, queued state updates, the        *)
(*             published exit handler, window.__exitTarget, the timers and *)
(*             animation frames of every HexGridCanvas effect ever run.    *)
(* SpecTiles : the pure tile arithmetic (generateHexGrid, calculateDelays, *)
(*             the per-tile part of animate) in fixed point.               *)
(* SpecAnim  : the hook useAnimationController.                            *)
(***************************************************************************)
EXTENDS Integers, Sequences, FiniteSets, TLC

VARIABLES
  phase,          \* useState 'entering' | 'visible' | 'exiting' (committed)
  showContent,    \* useState (committed)
  showCanvas,     \* useState (committed)
  pending,        \* state updates queued by setPhase/setShowCanvas/setShowContent
  mounted,        \* the PageTransition instance is mounted
  paperPageExit,  \* window.__paperPageExit: the phase captured by the published handleExit
  exitTarget,     \* window.__exitTarget
  runs,           \* one record per execution of the HexGridCanvas effect
  reducedMotion,  \* matchMedia('(prefers-reduced-motion: reduce)').matches
  canvasCtx,      \* canvasRef.current and getContext('2d') are both non-null
  navLog,         \* the calls navigate(target) made since the last commit
  burstFirst,     \* the first target handleExit accepted since the last commit
  called,         \* the last step was a call of window.__paperPageExit
  tile,           \* SpecTiles: the tile under computation
  ctl             \* SpecAnim: the state of one useAnimationController

vars == <<phase, showContent, showCanvas, pending, mounted, paperPageExit,
          exitTarget, runs, reducedMotion, canvasCtx, navLog, burstFirst,
          called, tile, ctl>>

(***************************************************************************)
(* Program constants                                                       *)
(***************************************************************************)
DURATION == 950
PARTIAL_PCT == 45          \* progress >= 0.45
HEX_SIZE == 40
HEX_DRAW_SIZE == 48
WAVE_SPREAD == 5000        \* 0.5, in units of 1/10000
STAGGER_NOISE == 300       \* 0.03, in units of 1/10000
DELAY_CLAMP == 9500        \* Math.min(0.95, ...), in units of 1/10000
DRAW_EPSILON == 100        \* scale > 0.01, in units of 1/10000

(***************************************************************************)
(* Bounds                                                                  *)
(***************************************************************************)
Step == 475                \* the gap between two frame timestamps is a multiple of Step, ms
MaxRuns == 2               \* HexGridCanvas effects with a callback left, at one time
JitterLevels == 4          \* Math.random() is drawn from {k / JitterLevels : k < JitterLevels}
PointStep == 20            \* viewport points are sampled on a lattice of PointStep px
MaxFrames == 4             \* totalFrames is drawn from 0..MaxFrames

Targets == {"A", "B"}
NoTarget == "none"
Undefined == "undefined"

Min(a, b) == IF a < b THEN a ELSE b
Max(a, b) == IF a > b THEN a ELSE b

(***************************************************************************)
(* animate: global progress, kept exact as progress * DURATION             *)
(***************************************************************************)
\* Math.min(1, ...) left out
Progress_NoClamp(elapsed) == elapsed

Progress(elapsed) == Min(DURATION, elapsed)

\* the partialFired latch left out
PartialDue_NoLatch(partialFired, progress, dir) ==
  progress * 100 >= PARTIAL_PCT * DURATION /\ dir = "reveal"

PartialDue(partialFired, progress, dir) ==
  ~partialFired /\ progress * 100 >= PARTIAL_PCT * DURATION /\ dir = "reveal"

\* the test progress < 1 replaced by progress < 0.5
MoreFrames_HalfWay(progress) == progress * 2 < DURATION

MoreFrames(progress) == progress < DURATION

(***************************************************************************)
(* PageTransition callbacks: each queues state updates (a setState on an   *)
(* unmounted component is dropped)                                         *)
(***************************************************************************)
handlePartialReveal(p) == [p EXCEPT !.showContent = TRUE]

\* setShowCanvas(false) left out
handleEnterComplete_KeepCanvas(p) == [p EXCEPT !.phase = "visible"]

handleEnterComplete(p) == [p EXCEPT !.phase = "visible", !.showCanvas = FALSE]

\* a hide completion that falls back to Visible
handleExitComplete_BackToVisible(p) ==
  [p EXCEPT !.phase = "visible", !.showCanvas = FALSE]

\* the state updates handleExitComplete queues: none
handleExitComplete(p) == p

EnteringState == [phase |-> "entering", showCanvas |-> TRUE, showContent |-> FALSE]

ExitingState == [phase |-> "exiting", showCanvas |-> TRUE, showContent |-> FALSE]

Queue(p) == IF mounted THEN p ELSE pending

(***************************************************************************)
(* HexGridCanvas effect                                                    *)
(***************************************************************************)
\* the prefersReducedMotion branch left out
EffectTimer_NoReducedBranch(ctxOk, reduced) == IF ~ctxOk THEN "none" ELSE "start"

\* which timer the effect body leaves armed
EffectTimer(ctxOk, reduced) ==
  IF ~ctxOk THEN "none" ELSE IF reduced THEN "reduced" ELSE "start"

\* whether the effect body reaches the drawing of the initial frame
EffectDraws(ctxOk, reduced) == ctxOk /\ ~reduced

\* the effect body
StartRun(dir, ctxOk, reduced, first, target) ==
  [ dir          |-> dir,
    live         |-> TRUE,
    timer        |-> EffectTimer(ctxOk, reduced),
    animRef      |-> FALSE,
    frame        |-> FALSE,
    due          |-> FALSE,
    started      |-> FALSE,
    elapsed      |-> 0,
    partialFired |-> FALSE,
    progress     |-> 0,
    prev         |-> 0,
    ticks        |-> 0,
    stale        |-> FALSE,
    drew         |-> EffectDraws(ctxOk, reduced),
    log          |-> << >>,
    first        |-> first,
    target       |-> target ]

\* the function returned by the effect (none is returned on the early
\* returns, where animationRef is never set), and the unmount of the canvas
Cleanup(r) ==
  [r EXCEPT !.live = FALSE,
            !.frame = IF r.animRef THEN FALSE ELSE r.frame,
            !.due = IF r.animRef THEN FALSE ELSE r.due]

\* a canvas that is unmounted and has no callback left is garbage
Reachable(r) == r.live \/ r.timer # "none" \/ r.frame

CanvasKey(ph, canvas) ==
  IF ph \in {"entering", "exiting"} /\ canvas THEN ph ELSE "nocanvas"

NeedsRun(p) ==
  /\ CanvasKey(p.phase, p.showCanvas) # CanvasKey(phase, showCanvas)
  /\ CanvasKey(p.phase, p.showCanvas) # "nocanvas"

CleanAll(rs) ==
  SelectSeq([i \in 1..Len(rs) |-> IF rs[i].live THEN Cleanup(rs[i]) ELSE rs[i]],
            Reachable)

\* reconciliation of the two conditional HexGridCanvas children for the
\* state p being committed
CommitRuns(p) ==
  IF CanvasKey(p.phase, p.showCanvas) = CanvasKey(phase, showCanvas)
  THEN SelectSeq(runs, Reachable)
  ELSE IF NeedsRun(p)
       THEN Append(CleanAll(runs),
                   IF p.phase = "exiting"
                   THEN StartRun("hide", canvasCtx, reducedMotion, burstFirst, exitTarget)
                   ELSE StartRun("reveal", canvasCtx, reducedMotion, NoTarget, NoTarget))
       ELSE CleanAll(runs)

(***************************************************************************)
(* Tile arithmetic in fixed point: lengths in 1/1000 px, angles in 1/1000   *)
(* rad, delays, progress and scales in units of 1/10000                    *)
(***************************************************************************)
CeilDiv(a, b) == -((-a) \div b)

Clamp(lo, hi, v) == Max(lo, Min(hi, v))

\* hexWidth * 0.72
HorizDist == HEX_SIZE * 2 * 720

\* Math.sqrt(3) * HEX_SIZE * 0.88
VertDist == (((1732051 * HEX_SIZE) \div 1000) * 88) \div 100

\* generateHexGrid: the number of columns and rows, and the centre of a tile
Cols(width) == CeilDiv(width * 1000, HorizDist) + 8

Rows(height) == CeilDiv(height * 1000, VertDist) + 8

\* startX = 0 instead of -HEX_SIZE * 4
TileX_NoMargin(col) == col * HorizDist

TileX(col) == -(HEX_SIZE * 4 * 1000) + col * HorizDist

TileY(col, row) ==
  -(HEX_SIZE * 4 * 1000) + row * VertDist + (IF col % 2 = 1 THEN VertDist \div 2 ELSE 0)

\* Math.sin(a) * 10000 for an angle a in 1/1000 rad (Bhaskara's rational
\* approximation on [0, pi], |error| < 0.0017)
SinPos(a) ==
  LET q == (a * (3142 - a)) \div 10
  IN (16 * q * 100) \div ((4934802 - 4 * q) \div 100)

Sin(a) ==
  LET t == a % 6283
  IN IF t <= 3142 THEN SinPos(t) ELSE -SinPos(t - 3142)

\* calculateDelays
NormalizedX(x, width) ==
  (((x + HEX_SIZE * 4 * 1000) \div 100) * 10000) \div ((width + HEX_SIZE * 8) * 10)

VerticalWave(y) == (Sin((y * 15) \div 1000) * 2) \div 100

RandomOffset(k) == (k * STAGGER_NOISE) \div JitterLevels - STAGGER_NOISE \div 2

BaseDelay(direction, normalizedX) ==
  IF direction = "ltr" THEN normalizedX ELSE 10000 - normalizedX

DelayClamp(v) == Clamp(0, DELAY_CLAMP, v)

Delay(x, y, width, direction, k) ==
  DelayClamp((BaseDelay(direction, NormalizedX(x, width)) * WAVE_SPREAD) \div 10000
             + VerticalWave(y) + RandomOffset(k))

\* the direction prop ignored
WaveDirection_AlwaysLtr(dir) == "ltr"

WaveDirection(dir) == IF dir = "reveal" THEN "ltr" ELSE "rtl"

\* baseDelay * WAVE_SPREAD, kept exact in units of 1/10000^2
BaseSpread(direction, normalizedX) == BaseDelay(direction, normalizedX) * WAVE_SPREAD

\* animate, for one tile
TileProgress(elapsed) == (Min(DURATION, elapsed) * 10000) \div DURATION

HexProgress(progress, delay) ==
  Clamp(0, 10000, ((progress - delay) * 10000) \div (10000 - WAVE_SPREAD))

Pow4(t) == LET sq == (t * t) \div 10000 IN (sq * sq) \div 10000

easeOutQuart(t) == 10000 - Pow4(10000 - t)

easeInQuart(t) == Pow4(t)

Eased(dir, t) == IF dir = "reveal" THEN easeOutQuart(t) ELSE easeInQuart(t)

Scale(dir, eased) == IF dir = "reveal" THEN 10000 - eased ELSE eased

\* the radius handed to drawHexagon in 1/10000 px, 0 when the tile is skipped
Radius(scale) == IF scale > DRAW_EPSILON THEN HEX_DRAW_SIZE * scale ELSE 0

NoTile == [stage |-> "none"]

NoCtl == [stage |-> "none"]

(***************************************************************************)
(* Initial state: PageTransition has mounted and its first commit has run  *)
(* the entering HexGridCanvas effect and published handleExit              *)
(***************************************************************************)
Init ==
  /\ phase = "entering"
  /\ showContent = FALSE
  /\ showCanvas = TRUE
  /\ pending = EnteringState
  /\ mounted = TRUE
  /\ paperPageExit = "entering"
  /\ exitTarget = NoTarget
  /\ reducedMotion \in BOOLEAN
  /\ canvasCtx \in BOOLEAN
  /\ runs = << StartRun("reveal", canvasCtx, reducedMotion, NoTarget, NoTarget) >>
  /\ navLog = << >>
  /\ burstFirst = NoTarget
  /\ called = FALSE
  /\ tile = NoTile
  /\ ctl = NoCtl

Committed == [phase |-> phase, showCanvas |-> showCanvas, showContent |-> showContent]

\* React commits queued updates before the next timer or frame callback runs
Dirty == mounted /\ pending # Committed

\* React commits the queued state: children are reconciled and their effects
\* run, then the effect that publishes handleExit
Render ==
  /\ mounted
  /\ pending # Committed
  /\ Len(CommitRuns(pending)) <= MaxRuns
  /\ runs' = CommitRuns(pending)
  /\ phase' = pending.phase
  /\ showCanvas' = pending.showCanvas
  /\ showContent' = pending.showContent
  /\ paperPageExit' = pending.phase
  /\ burstFirst' = NoTarget
  /\ navLog' = << >>
  /\ called' = FALSE
  /\ UNCHANGED <<pending, mounted, exitTarget, reducedMotion, canvasCtx, tile, ctl>>

\* location.pathname changes while the instance stays mounted: the render
\* commits whatever was queued, then the pathname effect queues Entering
RouteChange ==
  /\ mounted
  /\ Len(CommitRuns(pending)) <= MaxRuns
  /\ runs' = CommitRuns(pending)
  /\ phase' = pending.phase
  /\ showCanvas' = pending.showCanvas
  /\ showContent' = pending.showContent
  /\ paperPageExit' = pending.phase
  /\ pending' = EnteringState
  /\ burstFirst' = NoTarget
  /\ navLog' = << >>
  /\ called' = FALSE
  /\ UNCHANGED <<mounted, exitTarget, reducedMotion, canvasCtx, tile, ctl>>

\* the phase guard left out
ExitRejected_Never(captured) == FALSE

\* the guard of handleExit reads the phase its closure captured
ExitRejected(captured) == captured = "exiting"

\* window.__paperPageExit(targetPath)
handleExit(targetPath) ==
  /\ paperPageExit # Undefined
  /\ IF ExitRejected(paperPageExit)
     THEN UNCHANGED <<exitTarget, pending, burstFirst>>
     ELSE /\ exitTarget' = targetPath
          /\ pending' = Queue(ExitingState)
          /\ burstFirst' = IF burstFirst = NoTarget THEN targetPath ELSE burstFirst
  /\ called' = TRUE
  /\ UNCHANGED <<phase, showContent, showCanvas, mounted, paperPageExit, runs,
                 reducedMotion, canvasCtx, navLog, tile, ctl>>

\* timers set with the same delay fire in the order they were set
TimerDue(r) == runs[r].timer # "none" /\ \A q \in 1..(r - 1) : runs[q].timer = "none"

\* setTimeout(() => { animationRef.current = requestAnimationFrame(animate) }, 16)
StartTimer(r) ==
  /\ r \in 1..Len(runs)
  /\ runs[r].timer = "start"
  /\ TimerDue(r)
  /\ ~Dirty
  /\ runs' = [runs EXCEPT ![r] = [@ EXCEPT !.timer = "none",
                                            !.animRef = TRUE,
                                            !.frame = TRUE,
                                            !.due = FALSE]]
  /\ called' = FALSE
  /\ UNCHANGED <<phase, showContent, showCanvas, pending, mounted, paperPageExit,
                 exitTarget, reducedMotion, canvasCtx, navLog, burstFirst, tile, ctl>>

\* handleExitComplete, and handleEnterComplete, as the onComplete of run r
CompleteEffect(r, p) ==
  IF runs[r].dir = "reveal"
  THEN /\ pending' = Queue(handleEnterComplete(p))
       /\ UNCHANGED <<exitTarget, navLog>>
  ELSE /\ pending' = Queue(handleExitComplete(p))
       /\ IF exitTarget # NoTarget
          THEN /\ navLog' = Append(navLog, [target |-> exitTarget, live |-> runs[r].live,
                                            first |-> runs[r].first,
                                            for |-> runs[r].target,
                                            at |-> runs'[r].progress])
               /\ exitTarget' = NoTarget
          ELSE UNCHANGED <<exitTarget, navLog>>

Events(evs, at) == [i \in 1..Len(evs) |-> [ev |-> evs[i], at |-> at]]

\* setTimeout(() => { onPartialReveal?.(); onComplete?.() }, 50)
ReducedTimer(r) ==
  /\ r \in 1..Len(runs)
  /\ runs[r].timer = "reduced"
  /\ TimerDue(r)
  /\ ~Dirty
  /\ LET partial == runs[r].dir = "reveal"
         evs == IF partial THEN <<"partial", "complete">> ELSE <<"complete">>
     IN /\ runs' = [runs EXCEPT ![r] = [@ EXCEPT !.timer = "none",
                                                 !.stale = ~runs[r].live,
                                                 !.log = runs[r].log \o Events(evs, 0)]]
        /\ CompleteEffect(r, IF partial THEN handlePartialReveal(pending) ELSE pending)
  /\ called' = FALSE
  /\ UNCHANGED <<phase, showContent, showCanvas, mounted, paperPageExit,
                 reducedMotion, canvasCtx, burstFirst, tile, ctl>>

\* animate(timestamp), the requestAnimationFrame callback of run r
animate(r) ==
  /\ r \in 1..Len(runs)
  /\ runs[r].frame
  /\ runs[r].due
  /\ ~Dirty
  /\ LET run == runs[r]
         elapsed == IF run.started THEN run.elapsed ELSE 0
         progress == Progress(elapsed)
         partial == PartialDue(run.partialFired, progress, run.dir)
         more == MoreFrames(progress)
         evs == (IF partial THEN <<"partial">> ELSE << >>)
                \o (IF more THEN << >> ELSE <<"complete">>)
         p == IF partial THEN handlePartialReveal(pending) ELSE pending
     IN /\ runs' = [runs EXCEPT ![r] =
                     [@ EXCEPT !.started = TRUE,
                               !.elapsed = elapsed,
                               !.progress = progress,
                               !.prev = run.progress,
                               !.ticks = Min(run.ticks + 1, 2),
                               !.stale = ~run.live,
                               !.drew = TRUE,
                               !.partialFired = run.partialFired \/ partial,
                               !.frame = more,
                               !.due = FALSE,
                               !.log = run.log \o Events(evs, progress)]]
        /\ IF more
           THEN /\ pending' = Queue(p)
                /\ UNCHANGED <<exitTarget, navLog>>
           ELSE CompleteEffect(r, p)
  /\ called' = FALSE
  /\ UNCHANGED <<phase, showContent, showCanvas, mounted, paperPageExit,
                 reducedMotion, canvasCtx, burstFirst, tile, ctl>>

\* the platform produces the next frame timestamp, Step later: it is handed to
\* every pending frame callback; elapsed is timestamp - startTime.current of
\* a run that has started, kept up to ElapsedCap.  The 16 ms and 50 ms timers
\* are shorter than Step: a timer that is armed fires before the timestamp moves
ElapsedCap == DURATION + Step

Tick(r) ==
  IF r.frame
  THEN [r EXCEPT !.due = TRUE,
                 !.elapsed = IF r.started THEN Min(r.elapsed + Step, ElapsedCap) ELSE 0]
  ELSE r

AdvanceClock ==
  /\ \E r \in 1..Len(runs) : runs[r].frame /\ (runs[r].started => runs[r].elapsed < DURATION)
  /\ \A r \in 1..Len(runs) : runs[r].timer = "none"
  /\ ~Dirty
  /\ runs' = [i \in 1..Len(runs) |-> Tick(runs[i])]
  /\ called' = FALSE
  /\ UNCHANGED <<phase, showContent, showCanvas, pending, mounted, paperPageExit,
                 exitTarget, reducedMotion, canvasCtx, navLog, burstFirst, tile, ctl>>

\* the PageTransition instance is unmounted: every effect is cleaned up
Unmount ==
  /\ mounted
  /\ mounted' = FALSE
  /\ runs' = CleanAll(runs)
  /\ paperPageExit' = Undefined
  /\ pending' = Committed
  /\ burstFirst' = NoTarget
  /\ navLog' = << >>
  /\ called' = FALSE
  /\ UNCHANGED <<phase, showContent, showCanvas, exitTarget, reducedMotion,
                 canvasCtx, tile, ctl>>

ExitRequest == \E t \in Targets : handleExit(t)
TimerStep == \E r \in 1..MaxRuns : StartTimer(r) \/ ReducedTimer(r)
FrameStep == \E r \in 1..MaxRuns : animate(r)

Next ==
  \/ Render
  \/ RouteChange
  \/ ExitRequest
  \/ TimerStep
  \/ FrameStep
  \/ AdvanceClock
  \/ Unmount

Spec == Init /\ [][Next]_vars

\* the browser delivers every timer and frame it owes and React commits every
\* queued update; exit requests, route changes and the unmount are up to the
\* user
SpecLive ==
  /\ Init /\ [][Next]_vars
  /\ WF_vars(Render)
  /\ WF_vars(TimerStep)
  /\ WF_vars(FrameStep)
  /\ WF_vars(AdvanceClock)

(***************************************************************************)
(* SpecTiles: one HexGridCanvas effect and its frames, tile by tile        *)
(***************************************************************************)
\* window.innerWidth x window.innerHeight: a desktop, a phone, and a window
\* with no area
Viewports == { <<1920, 1080>>, <<390, 844>>, <<0, 0>> }

pageVars == <<phase, showContent, showCanvas, pending, mounted, paperPageExit,
              exitTarget, runs, reducedMotion, canvasCtx, navLog, burstFirst, called>>

\* window.innerWidth, window.innerHeight and the direction prop are read
InitTiles ==
  /\ phase = "entering"
  /\ showContent = FALSE
  /\ showCanvas = TRUE
  /\ pending = EnteringState
  /\ mounted = TRUE
  /\ paperPageExit = "entering"
  /\ exitTarget = NoTarget
  /\ reducedMotion = FALSE
  /\ canvasCtx = TRUE
  /\ runs = << >>
  /\ navLog = << >>
  /\ burstFirst = NoTarget
  /\ called = FALSE
  /\ \E v \in Viewports, dir \in {"reveal", "hide"} :
       tile = [stage |-> "viewport", width |-> v[1], height |-> v[2], dir |-> dir]
  /\ ctl = NoCtl

\* generateHexGrid pushes the tile of one (row, col)
GenerateTile ==
  /\ tile.stage = "viewport"
  /\ \E row \in 0..(Rows(tile.height) - 1), col \in 0..(Cols(tile.width) - 1) :
       tile' = [stage |-> "tile", width |-> tile.width, height |-> tile.height,
                dir |-> tile.dir, col |-> col, row |-> row,
                x |-> TileX(col), y |-> TileY(col, row)]
  /\ UNCHANGED <<pageVars, ctl>>

\* calculateDelays assigns the delay of the tile
AssignDelay ==
  /\ tile.stage = "tile"
  /\ \E k \in 0..(JitterLevels - 1) :
       tile' = [stage |-> "delayed", width |-> tile.width, height |-> tile.height,
                dir |-> tile.dir, col |-> tile.col, row |-> tile.row,
                x |-> tile.x, y |-> tile.y,
                base |-> BaseSpread(WaveDirection(tile.dir),
                                    NormalizedX(tile.x, tile.width)),
                delay |-> Delay(tile.x, tile.y, tile.width, WaveDirection(tile.dir), k)]
  /\ UNCHANGED <<pageVars, ctl>>

\* animate computes and draws the tile on a tick with the given elapsed time
DrawTile ==
  /\ tile.stage = "delayed"
  /\ \E n \in 0..((DURATION \div Step) + 1) :
       LET progress == TileProgress(n * Step)
           hexProgress == HexProgress(progress, tile.delay)
           eased == Eased(tile.dir, hexProgress)
       IN tile' = [stage |-> "drawn", width |-> tile.width, height |-> tile.height,
                   dir |-> tile.dir, col |-> tile.col, row |-> tile.row,
                   x |-> tile.x, y |-> tile.y, base |-> tile.base,
                   delay |-> tile.delay,
                   elapsed |-> n * Step, progress |-> progress,
                   hexProgress |-> hexProgress, eased |-> eased,
                   radius |-> Radius(Scale(tile.dir, eased))]
  /\ UNCHANGED <<pageVars, ctl>>

Abs(v) == IF v < 0 THEN -v ELSE v

\* the hexagon the initial frame of a reveal run, and the last frame of a hide
\* run, draws around every centre, in 1/1000 px
FullRadius_NoOverlap == HEX_SIZE * 1000

FullRadius == HEX_DRAW_SIZE * 1000

\* the path of drawHexagon(cx, cy, size): corners at -30, 30, ..., 270 degrees,
\* so |dx| <= size * cos 30 and |dy| <= size - |dx| * tan 30 (rounded inwards)
InHexagon(dx, dy, size) ==
  /\ Abs(dx) <= (size * 866) \div 1000
  /\ Abs(dy) <= size - CeilDiv(Abs(dx) * 578, 1000)

\* some tile of generateHexGrid(width, height) at full radius holds (px, py)
Covered(px, py, width, height) ==
  \E col \in 0..(Cols(width) - 1) :
    /\ Abs(px - TileX(col)) <= FullRadius
    /\ \E row \in 0..(Rows(height) - 1) :
         InHexagon(px - TileX(col), py - TileY(col, row), FullRadius)

SamplePoints(n) == {i * PointStep : i \in 0..(n \div PointStep)} \cup {n}

\* the fully covered frame, looked at in one point of the viewport rectangle
CoverPoint ==
  /\ tile.stage = "viewport"
  /\ \E px \in SamplePoints(tile.width), py \in SamplePoints(tile.height) :
       tile' = [stage |-> "point", width |-> tile.width, height |-> tile.height,
                dir |-> tile.dir, px |-> px * 1000, py |-> py * 1000,
                covered |-> Covered(px * 1000, py * 1000, tile.width, tile.height)]
  /\ UNCHANGED <<pageVars, ctl>>

SetMin(S) == CHOOSE v \in S : \A w \in S : v <= w

SetMax(S) == CHOOSE v \in S : \A w \in S : v >= w

\* the centres generateHexGrid(width, height) pushes
GridXs(width) == {TileX(col) : col \in 0..(Cols(width) - 1)}

GridYs(width, height) ==
  {TileY(col, row) : col \in 0..(Cols(width) - 1), row \in 0..(Rows(height) - 1)}

\* generateHexGrid returns: the extent of the centres, and the shift of the
\* odd columns
MeasureGrid ==
  /\ tile.stage = "viewport"
  /\ tile' = [stage |-> "grid", width |-> tile.width, height |-> tile.height,
              dir |-> tile.dir,
              minX |-> SetMin(GridXs(tile.width)),
              maxX |-> SetMax(GridXs(tile.width)),
              minY |-> SetMin(GridYs(tile.width, tile.height)),
              maxY |-> SetMax(GridYs(tile.width, tile.height)),
              shift |-> TileY(1, 0) - TileY(0, 0)]
  /\ UNCHANGED <<pageVars, ctl>>

NextTiles ==
  \/ GenerateTile
  \/ AssignDelay
  \/ DrawTile
  \/ CoverPoint
  \/ MeasureGrid

SpecTiles == InitTiles /\ [][NextTiles]_vars

(***************************************************************************)
(* SpecAnim: useAnimationController({totalFrames, loop, autoPlay}).  Every  *)
(* action is a handler together with the commit of its state update and    *)
(* the effects of that commit                                              *)
(***************************************************************************)
\* the interval effect: an interval is armed exactly when it takes the branch
\* isPlaying && totalFrames > 1
IntervalArmed(isPlaying, totalFrames) == isPlaying /\ totalFrames > 1

\* the effect that resets the index when it is beyond the last frame
ResetIndex(index, totalFrames) ==
  IF index >= totalFrames THEN Max(0, totalFrames - 1) ELSE index

\* the commit of new state, with its effects
Commit(op, isPlaying, index) ==
  ctl' = [ctl EXCEPT !.isPlaying = isPlaying,
                     !.currentIndex = ResetIndex(index, ctl.totalFrames),
                     !.armed = IntervalArmed(isPlaying, ctl.totalFrames),
                     !.prev = ctl.currentIndex,
                     !.last = op]

\* the interval callback: the updater handed to setCurrentIndex
TickIndex(prev, totalFrames, loop) ==
  IF prev + 1 >= totalFrames THEN (IF loop THEN 0 ELSE prev) ELSE prev + 1

\* setIsPlaying(false) left out of the updater
TickPlaying_NeverStops(prev, totalFrames, loop) == TRUE

\* whether the interval callback leaves isPlaying true
TickPlaying(prev, totalFrames, loop) == ~(prev + 1 >= totalFrames /\ ~loop)

setIndexSafe(index, totalFrames) == Max(0, Min(totalFrames - 1, index))

StepForwardIndex(prev, totalFrames, loop) ==
  IF prev + 1 >= totalFrames THEN (IF loop THEN 0 ELSE prev) ELSE prev + 1

StepBackwardIndex(prev, totalFrames, loop) ==
  IF prev - 1 < 0 THEN (IF loop THEN totalFrames - 1 ELSE 0) ELSE prev - 1

InitAnim ==
  /\ phase = "entering"
  /\ showContent = FALSE
  /\ showCanvas = TRUE
  /\ pending = EnteringState
  /\ mounted = TRUE
  /\ paperPageExit = "entering"
  /\ exitTarget = NoTarget
  /\ reducedMotion = FALSE
  /\ canvasCtx = TRUE
  /\ runs = << >>
  /\ navLog = << >>
  /\ burstFirst = NoTarget
  /\ called = FALSE
  /\ tile = NoTile
  /\ \E totalFrames \in 0..MaxFrames, loop \in BOOLEAN, autoPlay \in BOOLEAN :
       ctl = [stage |-> "ctl", totalFrames |-> totalFrames, loop |-> loop,
              isPlaying |-> autoPlay, currentIndex |-> 0,
              armed |-> IntervalArmed(autoPlay, totalFrames),
              prev |-> 0, last |-> "mount", live |-> TRUE]

Handler == ctl.stage = "ctl" /\ ctl.live /\ UNCHANGED <<pageVars, tile>>

play == Handler /\ Commit("play", TRUE, ctl.currentIndex)

pause == Handler /\ Commit("pause", FALSE, ctl.currentIndex)

toggle == Handler /\ Commit("toggle", ~ctl.isPlaying, ctl.currentIndex)

setIndex ==
  /\ Handler
  /\ \E index \in (-1)..(MaxFrames + 1) :
       Commit("setIndex", ctl.isPlaying, setIndexSafe(index, ctl.totalFrames))

reset == Handler /\ Commit("reset", FALSE, 0)

stepForward ==
  /\ Handler
  /\ Commit("stepForward", ctl.isPlaying,
            StepForwardIndex(ctl.currentIndex, ctl.totalFrames, ctl.loop))

stepBackward ==
  /\ Handler
  /\ Commit("stepBackward", ctl.isPlaying,
            StepBackwardIndex(ctl.currentIndex, ctl.totalFrames, ctl.loop))

\* the callback of setInterval
IntervalTick ==
  /\ Handler
  /\ ctl.armed
  /\ Commit("tick",
            ctl.isPlaying /\ TickPlaying(ctl.currentIndex, ctl.totalFrames, ctl.loop),
            TickIndex(ctl.currentIndex, ctl.totalFrames, ctl.loop))

\* the component using the hook is unmounted: both cleanups clear the interval
UnmountAnim ==
  /\ Handler
  /\ ctl' = [ctl EXCEPT !.live = FALSE, !.armed = FALSE, !.last = "unmount"]

NextAnim ==
  \/ play
  \/ pause
  \/ toggle
  \/ setIndex
  \/ reset
  \/ stepForward
  \/ stepBackward
  \/ IntervalTick
  \/ UnmountAnim

SpecAnim == InitAnim /\ [][NextAnim]_vars

(***************************************************************************)
(* Properties                                                              *)
(***************************************************************************)
Runs == 1..Len(runs)

LogEvents(r) == [i \in 1..Len(runs[r].log) |-> runs[r].log[i].ev]

\* C1: in every reveal run onPartialReveal is invoked exactly once and before
\* the single invocation of onComplete: the callbacks a reveal run has made so
\* far are none, the partial reveal alone, or the partial reveal followed by
\* the completion, whatever timestamps the frames carried.
C1_PartialOnceBeforeComplete ==
  \A r \in Runs :
    runs[r].dir = "reveal" =>
      LogEvents(r) \in { << >>, <<"partial">>, <<"partial", "complete">> }

\* a reveal run whose second frame jumped from progress 0 straight to 1
C1_Witness ==
  \E r \in Runs :
    /\ runs[r].dir = "reveal"
    /\ ~reducedMotion
    /\ runs[r].prev = 0
    /\ LogEvents(r) = <<"partial", "complete">>
    /\ runs[r].log[1].at = DURATION

\* C2: two exit requests A then B before the commit start one hide run whose
\* navigation goes to A: every navigation made by the mounted hide canvas goes
\* to the first target accepted before the commit that started it.
C2_FirstTargetWins ==
  \A i \in 1..Len(navLog) :
    navLog[i].live => navLog[i].target = navLog[i].first

\* C3: navigate(target) is invoked only by the onComplete of the hide run
\* started for that target, at progress 1 (or by its reduced-motion timer), and
\* the slot is cleared by that step.
C3_NavigateOnlyAtOwnCompletion ==
  \A i \in 1..Len(navLog) :
    /\ navLog[i].target = navLog[i].for
    /\ reducedMotion \/ navLog[i].at = DURATION

\* C4: no callback of a run acts after the run was cancelled.
C4_NoStaleCallback == \A r \in Runs : ~runs[r].stale

C6_ExitWhileExitingIsNoOp ==
  [][(mounted /\ phase = "exiting" /\ called') =>
       UNCHANGED <<exitTarget, phase, showCanvas, showContent, pending, runs,
                   navLog, burstFirst, paperPageExit>>]_vars

\* an exit request was just dropped while the hide run was under way
C6_Witness ==
  /\ called /\ mounted /\ phase = "exiting" /\ exitTarget # NoTarget
  /\ \E r \in Runs : runs[r].live /\ runs[r].dir = "hide" /\ runs[r].frame
                     /\ runs[r].started

\* C7: a run that finds no drawing surface still fires onPartialReveal and
\* onComplete from its effect.
C7_NoSurfaceStillFires ==
  ~canvasCtx =>
    \A r \in Runs :
      LogEvents(r) = IF runs[r].dir = "reveal" THEN <<"partial", "complete">>
                     ELSE <<"complete">>

\* C10: the global progress of a run is 0 on its first tick, never decreases,
\* stays within [0, 1] and is 1 on every tick with elapsed >= DURATION
\* (progress is kept as progress * DURATION).
C10_ProgressMonotone ==
  \A r \in Runs :
    runs[r].ticks > 0 =>
      /\ 0 <= runs[r].progress /\ runs[r].progress <= DURATION
      /\ runs[r].prev <= runs[r].progress
      /\ runs[r].ticks = 1 => runs[r].progress = 0
      /\ ~runs[r].due =>
           /\ runs[r].elapsed >= DURATION => runs[r].progress = DURATION
           /\ runs[r].elapsed < DURATION => runs[r].progress = runs[r].elapsed

C10_Witness ==
  \E r \in Runs :
    /\ runs[r].ticks = 2 /\ runs[r].prev = Step /\ runs[r].progress = DURATION
    /\ runs[r].elapsed >= DURATION

\* C8: every delay calculateDelays assigns lies in [0, WAVE_SPREAD].
C8_DelayWithinSpread ==
  tile.stage \in {"delayed", "drawn"} => 0 <= tile.delay /\ tile.delay <= WAVE_SPREAD

\* C9: on the tick with elapsed >= DURATION every tile has local and eased
\* progress 1: radius 0 in a reveal run, the full draw radius in a hide run.
C9_AllTilesDoneAtCompletion ==
  (tile.stage = "drawn" /\ tile.elapsed >= DURATION) =>
    /\ tile.hexProgress = 10000
    /\ tile.eased = 10000
    /\ tile.radius = IF tile.dir = "reveal" THEN 0 ELSE HEX_DRAW_SIZE * 10000

\* C11: for a viewport with no area generateHexGrid returns no tile, so that no
\* tile is ever generated, delayed or drawn for it.
C11_DegenerateGridEmpty ==
  tile.stage \in {"tile", "delayed", "drawn"} => tile.width > 0 /\ tile.height > 0

\* C12: every point of the viewport rectangle lies in the hexagon of full draw
\* radius of some tile of the grid.
C12_FullCoverage == tile.stage = "point" => tile.covered

\* the bottom right corner of the desktop viewport is covered
C12_Witness ==
  /\ tile.stage = "point" /\ tile.covered
  /\ tile.width = 1920 /\ tile.px = 1920000 /\ tile.py = 1080000

\* a run with a pending timer or a pending frame callback
Armed(run) == run.timer # "none" \/ run.frame

HasEvent(run, ev) == \E i \in 1..Len(run.log) : run.log[i].ev = ev

\* C13: at most one run is armed at any time.
C13_OneArmedRun == Cardinality({r \in Runs : Armed(runs[r])}) <= 1

\* a run as the effect body leaves it: no tick, no callback made yet
FreshRevealRun(run) ==
  /\ run.live /\ run.dir = "reveal"
  /\ ~run.started /\ run.ticks = 0 /\ run.progress = 0
  /\ ~run.partialFired /\ run.log = << >>

\* C14: the commit of a fresh navigation (the pathname effect has queued
\* Entering, and the queued state is committed) leaves a fresh reveal run:
\* progress 0, partial-reveal flag reset, no callback made yet.
C14_RouteChangeStartsFreshRun ==
  [][(mounted /\ pending = EnteringState /\ pending # Committed
        /\ phase' = pending.phase /\ showCanvas' = pending.showCanvas
        /\ showContent' = pending.showContent)
      => \E r \in 1..Len(runs') : FreshRevealRun(runs'[r])]_vars

\* C15: when the onComplete of the mounted hide run fires while the slot is
\* empty, the step queues phase Visible with the canvas removed.
C15_EmptySlotBackToVisible ==
  [][\A r \in Runs :
       (/\ mounted /\ Len(runs') = Len(runs)
        /\ runs[r].dir = "hide" /\ runs[r].live
        /\ ~HasEvent(runs[r], "complete") /\ HasEvent(runs'[r], "complete")
        /\ exitTarget = NoTarget)
       => (pending'.phase = "visible" /\ ~pending'.showCanvas)]_vars

\* C16: while the phase is Visible no run is armed, and the queued phase
\* leaves Visible only by an exit request or a route change.
C16_VisibleIsResting ==
  /\ [](mounted /\ phase = "visible" => \A r \in Runs : ~Armed(runs[r]))
  /\ [][(mounted /\ pending.phase = "visible" /\ pending'.phase # "visible")
         => (called' \/ pending' = EnteringState \/ ~mounted')]_vars

AtThreshold(progress) == progress * 100 >= PARTIAL_PCT * DURATION

\* C18: an animated reveal run has invoked onPartialReveal exactly when a
\* tick has reached the threshold, a hide run never invokes it, and content
\* is mounted during a transition only after the onPartialReveal of the
\* current run.
C18_PartialAtThreshold ==
  /\ \A r \in Runs :
       /\ runs[r].dir = "hide" => ~HasEvent(runs[r], "partial")
       /\ (runs[r].dir = "reveal" /\ runs[r].ticks > 0) =>
            (HasEvent(runs[r], "partial") <=> AtThreshold(runs[r].progress))
  /\ (mounted /\ showContent /\ phase \in {"entering", "exiting"}) =>
       \E r \in Runs : runs[r].live /\ HasEvent(runs[r], "partial")

\* C19: an accepted exit request (phase Exiting, target t in the slot) leads
\* to navigate(t), unless the instance is unmounted or a fresh navigation
\* takes over first.
C19_ExitLeadsToNavigation ==
  \A t \in Targets :
    (mounted /\ canvasCtx /\ phase = "exiting" /\ exitTarget = t)
      ~> (\/ ~mounted
          \/ pending = EnteringState
          \/ \E i \in 1..Len(navLog) : navLog[i].target = t)

\* C20: phase Entering leads to phase Visible with the canvas removed, unless
\* an exit request is accepted or the instance is unmounted first.
C20_EnteringTerminates ==
  (mounted /\ phase = "entering")
    ~> (~mounted \/ phase = "exiting" \/ (phase = "visible" /\ ~showCanvas))

\* C21: while neither the committed nor the queued phase is Exiting the slot
\* is empty.
C21_SlotOnlyWhileExiting ==
  (mounted /\ phase \in {"entering", "visible"}
           /\ pending.phase \in {"entering", "visible"})
    => exitTarget = NoTarget

\* C22: with reduced motion the step in which the mounted reveal run invokes
\* onComplete is a later step than the one in which it invoked
\* onPartialReveal.
C22_ReducedMotionTwoSteps ==
  [][\A r \in Runs :
       (/\ reducedMotion /\ mounted /\ Len(runs') = Len(runs)
        /\ runs[r].live /\ runs[r].dir = "reveal"
        /\ ~HasEvent(runs[r], "complete") /\ HasEvent(runs'[r], "complete"))
       => HasEvent(runs[r], "partial")]_vars

\* C25: whenever the phase is Visible the content is mounted.
C25_VisibleShowsContent == (mounted /\ phase = "visible") => showContent

\* C26: from the accepted exit request until the navigation (phase Exiting,
\* target in the slot) the content is not mounted and nothing but a route
\* change queues another phase or content.
C26_ExitingHidesContent ==
  (mounted /\ phase = "exiting" /\ exitTarget # NoTarget) =>
    /\ ~showContent
    /\ pending = ExitingState \/ pending = EnteringState

\* C27: the canvas flag is false exactly when the phase is Visible, in the
\* committed and in the queued state.
C27_CanvasMatchesPhase ==
  /\ showCanvas <=> phase # "visible"
  /\ pending.showCanvas <=> pending.phase # "visible"

\* Visible was reached while an accepted exit request was still in the slot
C27_Witness ==
  /\ mounted /\ phase = "visible" /\ ~showCanvas /\ exitTarget # NoTarget
  /\ pending = Committed

\* C28: the step in which the mounted hide run completes leaves the committed
\* and the queued state as they are and empties the slot, and while the
\* committed phase is Exiting the published handler is the rejecting one.
C28_HideCompletionOnlyNavigates ==
  /\ [](mounted /\ phase = "exiting" => paperPageExit = "exiting")
  /\ [][\A r \in Runs :
          (/\ mounted /\ Len(runs') = Len(runs)
           /\ runs[r].dir = "hide" /\ runs[r].live
           /\ ~HasEvent(runs[r], "complete") /\ HasEvent(runs'[r], "complete"))
          => (/\ UNCHANGED <<phase, showCanvas, showContent, pending, paperPageExit>>
              /\ phase = "exiting" /\ showCanvas
              /\ exitTarget' = NoTarget)]_vars

\* the mounted hide run has completed and navigated: still Exiting, covered
C28_Witness ==
  /\ mounted /\ phase = "exiting" /\ showCanvas /\ ~showContent
  /\ exitTarget = NoTarget /\ Len(navLog) = 1
  /\ \E r \in Runs : runs[r].live /\ runs[r].dir = "hide"
                     /\ HasEvent(runs[r], "complete") /\ runs[r].ticks = 2

\* C23: the base delay of a tile (before ripple and jitter) grows with x in a
\* reveal run and falls with x in a hide run, and the base delays of one tile
\* in the two kinds of run sum to the spread.
C23_WaveDirectionByKind ==
  tile.stage = "delayed" =>
    /\ \A col \in 0..(Cols(tile.width) - 1) :
         LET other == BaseSpread(WaveDirection(tile.dir),
                                 NormalizedX(TileX(col), tile.width))
         IN /\ (tile.dir = "reveal" /\ col >= tile.col) => other >= tile.base
            /\ (tile.dir = "hide" /\ col >= tile.col) => other <= tile.base
    /\ tile.base + BaseSpread(WaveDirection(IF tile.dir = "reveal" THEN "hide"
                                                                  ELSE "reveal"),
                              NormalizedX(tile.x, tile.width))
         = WAVE_SPREAD * 10000

\* the leftmost tile of a hide run has the whole spread as base delay
C23_Witness ==
  /\ tile.stage = "delayed" /\ tile.dir = "hide" /\ tile.col = 0
  /\ tile.base = WAVE_SPREAD * 10000

C29_IndexInRange ==
  ctl.stage = "ctl" =>
    /\ 0 <= ctl.currentIndex
    /\ ctl.currentIndex <= Max(0, ctl.totalFrames - 1)

\* C30: an interval tick advances the index by one; at the last frame it
\* stops the playback and keeps the index when loop is false, and wraps to 0
\* and keeps playing when loop is true; no interval is armed while isPlaying
\* is false.
C30_PlaybackStops ==
  ctl.stage = "ctl" =>
    /\ ~ctl.isPlaying => ~ctl.armed
    /\ (ctl.last = "tick" /\ ctl.totalFrames > 1) =>
         IF ctl.prev + 1 < ctl.totalFrames
         THEN ctl.currentIndex = ctl.prev + 1 /\ ctl.isPlaying
         ELSE IF ctl.loop
              THEN ctl.currentIndex = 0 /\ ctl.isPlaying
              ELSE ctl.currentIndex = ctl.prev /\ ~ctl.isPlaying

\* the tick at the last of three frames has stopped the playback
C30_Witness ==
  /\ ctl.stage = "ctl" /\ ctl.last = "tick" /\ ~ctl.loop /\ ctl.totalFrames = 3
  /\ ctl.prev = 2 /\ ctl.currentIndex = 2 /\ ~ctl.isPlaying /\ ~ctl.armed

====
